---- MODULE Spec2Model ----
(***************************************************************************)
(* State-machine model of the synchronisation primitives of the spinlock   *)
(* repository: the atomically reference-counted pointer (arc), the         *)
(* three-state futex mutex (lock), the spin lock (src), the reader-writer  *)
(* lock (rwlock) and the oneshot channels (channels).                      *)
(*                                                                         *)
(* Every primitive has its own variables, its own actions and its own      *)
(* specification (SpecArc, SpecMutex, ...); a specification leaves the     *)
(* variables of the other primitives unchanged.  Every atomic operation of *)
(* the source (load, swap, compare_exchange, fetch_add, fetch_sub, store,  *)
(* the futex wait and wake_one) is one step.                               *)
(***************************************************************************)
EXTENDS Integers, FiniteSets, Sequences, TLC

VARIABLES
    \* ---- arc/src/simple_arc.rs
    arc_ref_count,   \* ArcData.ref_count, an unsigned integer of RcWidth bits
    arc_handle,      \* each Arc handle: "none" | "live" | "freeing" | "dropped"
    arc_mut,         \* the handles holding the &mut T that get_mut returned
    arc_freed,       \* how many times Box::from_raw + drop ran on the block
    arc_aborted,     \* std::process::abort() was called
    arc_got,         \* what get_mut returned, if it was the last call: "some" | "none" | "unset"
    \* ---- lock/src/lib.rs
    mutex_state,     \* Mutex.state
    mutex_pc,        \* each thread's position in lock / lock_contended / drop
    mutex_spin,      \* lock_contended's spin_count
    mutex_left,      \* lock() calls the threads still have to make between them
    mutex_value,     \* Mutex.value, a counter
    mutex_local,     \* the value a thread read inside its critical section
    mutex_marked,    \* history: the threads whose swap(2) of the current lock() stands
    \* ---- src/lib.rs
    spin_locked,     \* SpinLock.locked
    spin_pc,         \* each thread's position in lock / drop
    spin_left,       \* lock() calls the thread still has to make
    spin_data,       \* SpinLock.data, a counter: the last value written
    spin_stale,      \* the values of data that were overwritten
    spin_local,      \* the value a thread read inside its critical section
    \* ---- rwlock/src/lib.rs
    rw_state,        \* RwLock.state
    rw_pc,           \* each thread's position in read / write, or the guard it holds
    rw_left,         \* read() and write() calls the thread still has to make
    \* ---- channels/src/safe_oneshot.rs, channels/src/unsafe_oneshot.rs
    ch_kind,         \* "safe" (Sender/Receiver) or "unsafe" (UnsafeOneshotChannel)
    ch_message,      \* the message slot's content, 0 while uninitialised
    ch_slot,         \* the slot: "uninit" | "init" | "moved" | "destroyed"
    ch_in_use,       \* UnsafeOneshotChannel.in_use
    ch_ready,        \* the ready flag
    ch_sender,       \* the safe variant's Sender: "live" | "consumed" | "dropped" | "absent"
    ch_receiver,     \* the safe variant's Receiver: "live" | "dropped" | "absent"
    ch_dropped,      \* the channel's destructor ran
    ch_pc,           \* each thread's position in send / receive
    ch_arg,          \* the message a thread's send() was called with
    ch_ret,          \* a thread's last result: "none" | "panic" | "value" | "sent" | "ready" | "not_ready"
    ch_val,          \* the value a thread's last successful receive() returned
    ch_ops,          \* calls the thread has made
    ch_log           \* history of the calls: counts, and the message accepted for sending

arcVars == <<arc_ref_count, arc_handle, arc_mut, arc_freed, arc_aborted, arc_got>>
mutexVars == <<mutex_state, mutex_pc, mutex_spin, mutex_left, mutex_value, mutex_local,
              mutex_marked>>
spinVars == <<spin_locked, spin_pc, spin_left, spin_data, spin_stale, spin_local>>
rwVars == <<rw_state, rw_pc, rw_left>>
\* Blocking queue channel (channels/src/simple.rs)
VARIABLES
    q_queue,         \* queue: the VecDeque behind the Mutex, front first
    q_lock,          \* the Mutex: 0 when free, else the thread holding it
    q_ready,         \* ready: the threads suspended on the Condvar
    q_pc,            \* per thread: position in send / receive
    q_sends,         \* send() calls still to be made
    q_recvs,         \* receive() calls still to be made
    q_spurious,      \* spurious wakeups still to happen
    q_pushed,        \* history: the messages in the order their pushes happened
    q_recvd          \* history: the messages in the order their pops happened

queueVars == <<q_queue, q_lock, q_ready, q_pc, q_sends, q_recvs,
               q_spurious, q_pushed, q_recvd>>

chVars == <<ch_kind, ch_message, ch_slot, ch_in_use, ch_ready, ch_sender,
            ch_receiver, ch_dropped, ch_pc, ch_arg, ch_ret, ch_val, ch_ops, ch_log>>
vars == <<arcVars, mutexVars, spinVars, rwVars, chVars, queueVars>>
arcOthers == <<mutexVars, spinVars, rwVars, chVars, queueVars>>
mutexOthers == <<arcVars, spinVars, rwVars, chVars, queueVars>>
spinOthers == <<arcVars, mutexVars, rwVars, chVars, queueVars>>
rwOthers == <<arcVars, mutexVars, spinVars, chVars, queueVars>>
chOthers == <<arcVars, mutexVars, spinVars, rwVars, queueVars>>
queueOthers == <<arcVars, mutexVars, spinVars, rwVars, chVars>>

(***************************************************************************)
(* Atomic shared pointer: arc/src/simple_arc.rs                            *)
(***************************************************************************)

\* The model's width of the reference count (usize in the source).
RcWidth == 3
\* The handles that can exist over a run: the one new() returns and its clones.
ArcMaxHandles == 6

RcModulus == 2 ^ RcWidth
\* usize::MAX
RcMax == RcModulus - 1
ArcHandles == 1 .. ArcMaxHandles

\* Arc::new: the block is allocated with ref_count 0 and one handle is returned.
ArcNewCount == 0

InitArc ==
    /\ arc_ref_count = ArcNewCount
    /\ arc_handle = [h \in ArcHandles |-> IF h = 1 THEN "live" ELSE "none"]
    /\ arc_mut = {}
    /\ arc_freed = 0
    /\ arc_aborted = FALSE
    /\ arc_got = "unset"

\* What an atomic read of ref_count can return: the stored count while the block
\* is allocated; once the block was freed the read is of freed memory, and any
\* value can come back.
ArcCountRead == IF arc_freed > 0 THEN 0 .. RcMax ELSE {arc_ref_count}

\* The handles not yet handed out, and the one the next clone() returns.
ArcUnused == {h \in ArcHandles : arc_handle[h] = "none"}
ArcNext == CHOOSE n \in ArcUnused : \A m \in ArcUnused : n <= m

\* Clone for Arc: fetch_add(1, Relaxed); abort if the old value > usize::MAX / 2.
ArcClone(h) ==
    /\ ~arc_aborted
    /\ arc_handle[h] = "live"
    /\ h \notin arc_mut
    /\ ArcUnused # {}
    /\ \E old \in ArcCountRead :
        /\ arc_ref_count' = (old + 1) % RcModulus
        /\ IF old > RcMax \div 2
           THEN /\ arc_aborted' = TRUE
                /\ UNCHANGED arc_handle
           ELSE /\ arc_handle' = [arc_handle EXCEPT ![ArcNext] = "live"]
                /\ UNCHANGED arc_aborted
    /\ arc_got' = "unset"
    /\ UNCHANGED <<arc_mut, arc_freed>>
    /\ UNCHANGED arcOthers

\* Drop for Arc, the fetch_sub(1, Release): the handle that reads 1 goes on to
\* free the block.
ArcDrop(h) ==
    /\ ~arc_aborted
    /\ arc_handle[h] = "live"
    /\ h \notin arc_mut
    /\ \E old \in ArcCountRead :
        /\ arc_ref_count' = (old - 1) % RcModulus
        /\ arc_handle' = [arc_handle EXCEPT ![h] = IF old = 1 THEN "freeing" ELSE "dropped"]
    /\ arc_got' = "unset"
    /\ UNCHANGED <<arc_mut, arc_freed, arc_aborted>>
    /\ UNCHANGED arcOthers

\* Drop for Arc, the drop(Box::from_raw(..)) after the acquire fence.
ArcFree(h) ==
    /\ ~arc_aborted
    /\ arc_handle[h] = "freeing"
    /\ arc_freed < 2
    /\ arc_freed' = arc_freed + 1
    /\ arc_handle' = [arc_handle EXCEPT ![h] = "dropped"]
    /\ arc_got' = "unset"
    /\ UNCHANGED <<arc_ref_count, arc_mut, arc_aborted>>
    /\ UNCHANGED arcOthers

\* Arc::get_mut: Some(&mut T) if the count reads 1, else None.  The &mut Arc
\* borrow keeps the handle from being cloned or dropped while the &mut T lives.
ArcGetMut(h) ==
    /\ ~arc_aborted
    /\ arc_handle[h] = "live"
    /\ h \notin arc_mut
    /\ \E c \in ArcCountRead :
        /\ arc_mut' = IF c = 1 THEN arc_mut \cup {h} ELSE arc_mut
        /\ arc_got' = IF c = 1 THEN "some" ELSE "none"
    /\ UNCHANGED <<arc_ref_count, arc_handle, arc_freed, arc_aborted>>
    /\ UNCHANGED arcOthers

\* The &mut T that get_mut returned goes out of scope.
ArcReleaseMut(h) ==
    /\ ~arc_aborted
    /\ h \in arc_mut
    /\ arc_mut' = arc_mut \ {h}
    /\ arc_got' = "unset"
    /\ UNCHANGED <<arc_ref_count, arc_handle, arc_freed, arc_aborted>>
    /\ UNCHANGED arcOthers

ArcLive == {h \in ArcHandles : arc_handle[h] \in {"live", "freeing"}}

(***************************************************************************)
(* Mutex: lock/src/lib.rs                                                  *)
(***************************************************************************)

\* Threads sharing the mutex, and the lock() calls they make between them.
MutexThreadCount == 3
MutexCalls == 4
\* lock_contended's bound on spin_count (100 in the source), scaled down.
SpinLimit == 1

MutexThreads == 1 .. MutexThreadCount

InitMutex ==
    /\ mutex_state = 0
    /\ mutex_pc = [t \in MutexThreads |-> "idle"]
    /\ mutex_spin = [t \in MutexThreads |-> 0]
    /\ mutex_left = MutexCalls
    /\ mutex_value = 0
    /\ mutex_local = [t \in MutexThreads |-> 0]
    /\ mutex_marked = {}

\* The positions at which a thread owns a MutexGuard: from the return of lock()
\* up to the swap in the guard's drop.
MutexGuardPcs == {"cs", "cs_write", "unlock"}
MutexHolders == {t \in MutexThreads : mutex_pc[t] \in MutexGuardPcs}
\* The threads blocked inside wait(state, 2).
MutexParked == {t \in MutexThreads : mutex_pc[t] = "parked"}
\* Every lock() call was made and every guard dropped.
MutexAllDone == mutex_left = 0 /\ \A t \in MutexThreads : mutex_pc[t] = "idle"

\* Mutex::lock: compare_exchange(0, 1, Acquire, Relaxed); on failure enter
\* lock_contended with spin_count = 0.
MutexLock(t) ==
    /\ mutex_pc[t] = "idle"
    /\ mutex_left > 0
    /\ mutex_left' = mutex_left - 1
    /\ IF mutex_state = 0
       THEN /\ mutex_state' = 1
            /\ mutex_pc' = [mutex_pc EXCEPT ![t] = "cs"]
       ELSE /\ mutex_pc' = [mutex_pc EXCEPT ![t] = "spin"]
            /\ UNCHANGED mutex_state
    /\ mutex_spin' = [mutex_spin EXCEPT ![t] = 0]
    /\ UNCHANGED <<mutex_value, mutex_local>>
    /\ UNCHANGED mutex_marked
    /\ UNCHANGED mutexOthers

\* lock_contended: one evaluation of the while condition
\* state.load(Relaxed) == 1 && spin_count < 100, and the loop body.
MutexSpin(t) ==
    /\ mutex_pc[t] = "spin"
    /\ IF mutex_state = 1 /\ mutex_spin[t] < SpinLimit
       THEN /\ mutex_spin' = [mutex_spin EXCEPT ![t] = @ + 1]
            /\ UNCHANGED mutex_pc
       ELSE /\ mutex_pc' = [mutex_pc EXCEPT ![t] = "cas"]
            /\ mutex_spin' = [mutex_spin EXCEPT ![t] = 0]
    /\ UNCHANGED <<mutex_state, mutex_left, mutex_value, mutex_local>>
    /\ UNCHANGED mutex_marked
    /\ UNCHANGED mutexOthers

\* lock_contended: compare_exchange(0, 1, Acquire, Relaxed) after the spin;
\* return if it succeeded.
MutexSpinCas(t) ==
    /\ mutex_pc[t] = "cas"
    /\ IF mutex_state = 0
       THEN /\ mutex_state' = 1
            /\ mutex_pc' = [mutex_pc EXCEPT ![t] = "cs"]
       ELSE /\ mutex_pc' = [mutex_pc EXCEPT ![t] = "swap"]
            /\ UNCHANGED mutex_state
    /\ UNCHANGED <<mutex_spin, mutex_left, mutex_value, mutex_local>>
    /\ UNCHANGED mutex_marked
    /\ UNCHANGED mutexOthers

\* A swap to 2 that takes the lock whatever value it swapped out.
MutexSwapIgnoresOld(t) ==
    /\ mutex_pc[t] = "swap"
    /\ mutex_state' = 2
    /\ mutex_pc' = [mutex_pc EXCEPT ![t] = "cs"]
    /\ UNCHANGED <<mutex_spin, mutex_left, mutex_value, mutex_local>>
    /\ mutex_marked' = mutex_marked \cup {t}
    /\ UNCHANGED mutexOthers

\* lock_contended: while state.swap(2, Acquire) != 0 { wait(state, 2) }, the swap.
MutexSwap(t) ==
    /\ mutex_pc[t] = "swap"
    /\ mutex_state' = 2
    /\ mutex_pc' = [mutex_pc EXCEPT ![t] = IF mutex_state = 0 THEN "cs" ELSE "wait"]
    /\ UNCHANGED <<mutex_spin, mutex_left, mutex_value, mutex_local>>
    /\ mutex_marked' = mutex_marked \cup {t}
    /\ UNCHANGED mutexOthers

\* A wait that blocks without comparing the word with the expected value.
MutexWaitUnchecked(t) ==
    /\ mutex_pc[t] = "wait"
    /\ mutex_pc' = [mutex_pc EXCEPT ![t] = "parked"]
    /\ UNCHANGED <<mutex_state, mutex_spin, mutex_left, mutex_value, mutex_local>>
    /\ UNCHANGED mutex_marked
    /\ UNCHANGED mutexOthers

\* atomic_wait::wait(state, 2): blocks only if the word still holds 2, checked
\* atomically with going to sleep; returns at once otherwise.
MutexWait(t) ==
    /\ mutex_pc[t] = "wait"
    /\ mutex_pc' = [mutex_pc EXCEPT ![t] = IF mutex_state = 2 THEN "parked" ELSE "swap"]
    /\ UNCHANGED <<mutex_state, mutex_spin, mutex_left, mutex_value, mutex_local>>
    /\ UNCHANGED mutex_marked
    /\ UNCHANGED mutexOthers

\* wait() may return spuriously: the loop around it re-checks.
MutexSpuriousWake(t) ==
    /\ mutex_pc[t] = "parked"
    /\ mutex_pc' = [mutex_pc EXCEPT ![t] = "swap"]
    /\ UNCHANGED <<mutex_state, mutex_spin, mutex_left, mutex_value, mutex_local>>
    /\ UNCHANGED mutex_marked
    /\ UNCHANGED mutexOthers

\* The critical section, through DerefMut: read the counter ...
MutexRead(t) ==
    /\ mutex_pc[t] = "cs"
    /\ mutex_local' = [mutex_local EXCEPT ![t] = mutex_value]
    /\ mutex_pc' = [mutex_pc EXCEPT ![t] = "cs_write"]
    /\ UNCHANGED <<mutex_state, mutex_spin, mutex_left, mutex_value>>
    /\ UNCHANGED mutex_marked
    /\ UNCHANGED mutexOthers

\* ... and write it back incremented; the guard then goes out of scope.
MutexWrite(t) ==
    /\ mutex_pc[t] = "cs_write"
    /\ mutex_value' = mutex_local[t] + 1
    /\ mutex_local' = [mutex_local EXCEPT ![t] = 0]
    /\ mutex_pc' = [mutex_pc EXCEPT ![t] = "unlock"]
    /\ UNCHANGED <<mutex_state, mutex_spin, mutex_left>>
    /\ UNCHANGED mutex_marked
    /\ UNCHANGED mutexOthers

\* A drop that calls wake_one whenever the swapped-out value was not 0.
MutexUnlockWakesIfLocked(t) ==
    /\ mutex_pc[t] = "unlock"
    /\ mutex_state' = 0
    /\ mutex_pc' = [mutex_pc EXCEPT ![t] = IF mutex_state # 0 THEN "wake" ELSE "idle"]
    /\ mutex_marked' = mutex_marked \ {t}
    /\ UNCHANGED <<mutex_spin, mutex_left, mutex_value, mutex_local>>
    /\ UNCHANGED mutexOthers

\* A drop that takes one off the word instead of clearing it.
MutexUnlockDecrements(t) ==
    /\ mutex_pc[t] = "unlock"
    /\ mutex_state' = mutex_state - 1
    /\ mutex_pc' = [mutex_pc EXCEPT ![t] = IF mutex_state = 2 THEN "wake" ELSE "idle"]
    /\ mutex_marked' = mutex_marked \ {t}
    /\ UNCHANGED <<mutex_spin, mutex_left, mutex_value, mutex_local>>
    /\ UNCHANGED mutexOthers

\* A drop that calls wake_one whatever the swapped-out value was.
MutexUnlockAlwaysWakes(t) ==
    /\ mutex_pc[t] = "unlock"
    /\ mutex_state' = 0
    /\ mutex_pc' = [mutex_pc EXCEPT ![t] = "wake"]
    /\ UNCHANGED <<mutex_spin, mutex_left, mutex_value, mutex_local>>
    /\ mutex_marked' = mutex_marked \ {t}
    /\ UNCHANGED mutexOthers

\* Drop for MutexGuard: state.swap(0, Release); wake_one follows iff the old
\* value was 2.
MutexUnlock(t) ==
    /\ mutex_pc[t] = "unlock"
    /\ mutex_state' = 0
    /\ mutex_pc' = [mutex_pc EXCEPT ![t] = IF mutex_state = 2 THEN "wake" ELSE "idle"]
    /\ UNCHANGED <<mutex_spin, mutex_left, mutex_value, mutex_local>>
    /\ mutex_marked' = mutex_marked \ {t}
    /\ UNCHANGED mutexOthers

\* Drop for MutexGuard: wake_one(&state) wakes one thread blocked in wait, if
\* there is one.
MutexWake(t) ==
    /\ mutex_pc[t] = "wake"
    /\ IF MutexParked = {}
       THEN mutex_pc' = [mutex_pc EXCEPT ![t] = "idle"]
       ELSE \E w \in MutexParked :
                mutex_pc' = [mutex_pc EXCEPT ![t] = "idle", ![w] = "swap"]
    /\ UNCHANGED <<mutex_state, mutex_spin, mutex_left, mutex_value, mutex_local>>
    /\ UNCHANGED mutex_marked
    /\ UNCHANGED mutexOthers

\* The steps thread t takes by itself.
MutexStep(t) ==
    \/ MutexLock(t)
    \/ MutexSpin(t)
    \/ MutexSpinCas(t)
    \/ MutexSwap(t)
    \/ MutexWait(t)
    \/ MutexRead(t)
    \/ MutexWrite(t)
    \/ MutexUnlock(t)
    \/ MutexWake(t)

(***************************************************************************)
(* Spin lock: src/lib.rs                                                   *)
(***************************************************************************)

\* Threads sharing the spin lock, and the lock() calls each of them makes.
SpinThreadCount == 3
SpinIters == 1

SpinThreads == 1 .. SpinThreadCount

\* The ordering of the store in Drop for Guard.
SpinDropOrdering == "Relaxed"

InitSpin ==
    /\ spin_locked = FALSE
    /\ spin_pc = [t \in SpinThreads |-> "idle"]
    /\ spin_left = [t \in SpinThreads |-> SpinIters]
    /\ spin_data = 0
    /\ spin_stale = {}
    /\ spin_local = [t \in SpinThreads |-> 0]

\* The positions at which a thread owns a Guard.
SpinGuardPcs == {"cs", "cs_write", "drop"}
SpinHolders == {t \in SpinThreads : spin_pc[t] \in SpinGuardPcs}
SpinAfterDrop(t) == IF spin_left[t] = 0 THEN "done" ELSE "idle"

\* The values of data a guard holder can read.  The acquire swap of lock()
\* synchronises with the store of the previous guard's drop only if that store
\* is a release; with a weaker store the previous holder's writes race with
\* this read, which can return an overwritten value.
SpinVisible ==
    IF SpinDropOrdering \in {"Release", "AcqRel", "SeqCst"}
    THEN {spin_data}
    ELSE {spin_data} \cup spin_stale

\* A thread calls SpinLock::lock.
SpinCall(t) ==
    /\ spin_pc[t] = "idle"
    /\ spin_left[t] > 0
    /\ spin_left' = [spin_left EXCEPT ![t] = @ - 1]
    /\ spin_pc' = [spin_pc EXCEPT ![t] = "lock"]
    /\ UNCHANGED <<spin_locked, spin_data, spin_stale, spin_local>>
    /\ UNCHANGED spinOthers

\* A lock() that takes the flag without looking at the value swapped out.
SpinSwapIgnoresOld(t) ==
    /\ spin_pc[t] = "lock"
    /\ spin_locked' = TRUE
    /\ spin_pc' = [spin_pc EXCEPT ![t] = "cs"]
    /\ UNCHANGED <<spin_left, spin_data, spin_stale, spin_local>>
    /\ UNCHANGED spinOthers

\* SpinLock::lock: one iteration of while locked.swap(true, Acquire) { spin_loop() };
\* the Guard is returned when the swap read false.
SpinSwap(t) ==
    /\ spin_pc[t] = "lock"
    /\ spin_locked' = TRUE
    /\ spin_pc' = [spin_pc EXCEPT ![t] = IF spin_locked THEN "lock" ELSE "cs"]
    /\ UNCHANGED <<spin_left, spin_data, spin_stale, spin_local>>
    /\ UNCHANGED spinOthers

\* The critical section, through Deref: read the counter ...
SpinRead(t) ==
    /\ spin_pc[t] = "cs"
    /\ \E v \in SpinVisible : spin_local' = [spin_local EXCEPT ![t] = v]
    /\ spin_pc' = [spin_pc EXCEPT ![t] = "cs_write"]
    /\ UNCHANGED <<spin_locked, spin_left, spin_data, spin_stale>>
    /\ UNCHANGED spinOthers

\* ... and, through DerefMut, write it back incremented.
SpinWrite(t) ==
    /\ spin_pc[t] = "cs_write"
    /\ spin_data' = spin_local[t] + 1
    /\ spin_stale' = (spin_stale \cup {spin_data}) \ {spin_local[t] + 1}
    /\ spin_local' = [spin_local EXCEPT ![t] = 0]
    /\ spin_pc' = [spin_pc EXCEPT ![t] = "drop"]
    /\ UNCHANGED <<spin_locked, spin_left>>
    /\ UNCHANGED spinOthers

\* Drop for Guard: locked.store(false, Relaxed).
SpinDrop(t) ==
    /\ spin_pc[t] = "drop"
    /\ spin_locked' = FALSE
    /\ spin_pc' = [spin_pc EXCEPT ![t] = SpinAfterDrop(t)]
    /\ UNCHANGED <<spin_left, spin_data, spin_stale, spin_local>>
    /\ UNCHANGED spinOthers

(***************************************************************************)
(* Reader-writer lock: rwlock/src/lib.rs                                   *)
(*                                                                         *)
(* The source declares read() and write() with empty bodies.  RwRead and   *)
(* RwWrite follow the specification's section 4.4; the guards, their       *)
(* destructors and the state word are those of the source.                 *)
(***************************************************************************)

\* Threads sharing the lock, and the read()/write() calls each of them makes.
RwThreadCount == 3
RwCalls == 2

\* The model's width of the state word (u32 in the source).
RwWidth == 4

RwThreads == 1 .. RwThreadCount
\* u32::MAX, the value of state while a writer holds the lock.
RwWriterSentinel == 2 ^ RwWidth - 1

InitRw ==
    /\ rw_state = 0
    /\ rw_pc = [t \in RwThreads |-> "idle"]
    /\ rw_left = [t \in RwThreads |-> RwCalls]

RwReaders == {t \in RwThreads : rw_pc[t] = "read"}
RwWriters == {t \in RwThreads : rw_pc[t] = "write"}
RwParked == {t \in RwThreads : rw_pc[t] \in {"rparked", "wparked"}}

\* A thread calls read() or write().
RwCall(t, op) ==
    /\ rw_pc[t] = "idle"
    /\ rw_left[t] > 0
    /\ rw_left' = [rw_left EXCEPT ![t] = @ - 1]
    /\ rw_pc' = [rw_pc EXCEPT ![t] = op]
    /\ UNCHANGED rw_state
    /\ UNCHANGED rwOthers

\* read(): increment the reader count unless a writer holds the lock; block on
\* the state word while one does.
RwRead(t) ==
    /\ rw_pc[t] = "reading"
    /\ IF rw_state # RwWriterSentinel
       THEN /\ rw_state' = rw_state + 1
            /\ rw_pc' = [rw_pc EXCEPT ![t] = "read"]
       ELSE /\ rw_pc' = [rw_pc EXCEPT ![t] = "rparked"]
            /\ UNCHANGED rw_state
    /\ UNCHANGED rw_left
    /\ UNCHANGED rwOthers

\* write(): set the sentinel only when the state is 0; block otherwise.
RwWrite(t) ==
    /\ rw_pc[t] = "writing"
    /\ IF rw_state = 0
       THEN /\ rw_state' = RwWriterSentinel
            /\ rw_pc' = [rw_pc EXCEPT ![t] = "write"]
       ELSE /\ rw_pc' = [rw_pc EXCEPT ![t] = "wparked"]
            /\ UNCHANGED rw_state
    /\ UNCHANGED rw_left
    /\ UNCHANGED rwOthers

\* A blocked thread returns from wait (woken, or spuriously) and tries again.
RwResume(t) ==
    /\ rw_pc[t] \in {"rparked", "wparked"}
    /\ rw_pc' = [rw_pc EXCEPT ![t] = IF rw_pc[t] = "rparked" THEN "reading" ELSE "writing"]
    /\ UNCHANGED <<rw_state, rw_left>>
    /\ UNCHANGED rwOthers

\* A ReadGuard goes out of scope.  ReadGuard has no Drop implementation: the
\* state word is left as it is.
RwDropRead(t) ==
    /\ rw_pc[t] = "read"
    /\ rw_pc' = [rw_pc EXCEPT ![t] = "idle"]
    /\ UNCHANGED <<rw_state, rw_left>>
    /\ UNCHANGED rwOthers

\* Drop for WriteGuard: state.swap(0, Release), and wake_one if the old value
\* was 2.
RwDropWrite(t) ==
    /\ rw_pc[t] = "write"
    /\ rw_state' = 0
    /\ IF rw_state = 2 /\ RwParked # {}
       THEN \E w \in RwParked :
                rw_pc' = [rw_pc EXCEPT ![t] = "idle",
                                       ![w] = IF rw_pc[w] = "rparked" THEN "reading" ELSE "writing"]
       ELSE rw_pc' = [rw_pc EXCEPT ![t] = "idle"]
    /\ UNCHANGED rw_left
    /\ UNCHANGED rwOthers

(***************************************************************************)
(* Oneshot channels: channels/src/safe_oneshot.rs and                      *)
(* channels/src/unsafe_oneshot.rs                                          *)
(*                                                                         *)
(* One channel, of the kind chosen initially.  The two variants share the  *)
(* slot, the ready flag and the code of receive; they differ in send: the  *)
(* unsafe variant guards it with in_use, the safe variant by consuming the *)
(* Sender.  Threads are allowed to interleave in both variants.            *)
(***************************************************************************)

\* Threads using the channel, the calls each makes, and the messages 1 .. ChMaxMsg.
ChThreadCount == 2
ChMaxOps == 2
ChMaxMsg == 2

ChThreads == 1 .. ChThreadCount
ChMsgs == 1 .. ChMaxMsg

ChLogInit ==
    [sent |-> 0, send_done |-> FALSE, writes |-> 0, reads |-> 0,
     send_calls |-> 0, send_panics |-> 0,
     recv_calls |-> 0, recv_ok |-> 0, recv_panics |-> 0, destroyed |-> 0,
     seen_ready |-> FALSE]

\* channel() / UnsafeOneshotChannel::new(): an uninitialised slot, ready (and
\* in_use) false.
InitCh ==
    /\ ch_kind \in {"safe", "unsafe"}
    /\ ch_message = 0
    /\ ch_slot = "uninit"
    /\ ch_in_use = FALSE
    /\ ch_ready = FALSE
    /\ ch_sender = IF ch_kind = "safe" THEN "live" ELSE "absent"
    /\ ch_receiver = IF ch_kind = "safe" THEN "live" ELSE "absent"
    /\ ch_dropped = FALSE
    /\ ch_pc = [t \in ChThreads |-> "idle"]
    /\ ch_arg = [t \in ChThreads |-> 0]
    /\ ch_ret = [t \in ChThreads |-> "none"]
    /\ ch_val = [t \in ChThreads |-> 0]
    /\ ch_ops = [t \in ChThreads |-> 0]
    /\ ch_log = ChLogInit

\* A thread can start a call: the channel is still there.
ChCanCall(t) == ch_pc[t] = "idle" /\ ch_ops[t] < ChMaxOps /\ ~ch_dropped
\* A thread can call receive() or is_ready(): in the safe variant through the
\* Receiver.
ChCanReceive(t) == ChCanCall(t) /\ (ch_kind = "safe" => ch_receiver = "live")

\* A send() that reads in_use without setting it.
ChSendCheckLoads(t, v) ==
    /\ ch_kind = "unsafe"
    /\ ChCanCall(t)
    /\ ch_ops' = [ch_ops EXCEPT ![t] = @ + 1]
    /\ UNCHANGED ch_in_use
    /\ IF ch_in_use
       THEN /\ ch_ret' = [ch_ret EXCEPT ![t] = "panic"]
            /\ ch_log' = [ch_log EXCEPT !.send_calls = @ + 1, !.send_panics = @ + 1]
            /\ UNCHANGED <<ch_pc, ch_arg>>
       ELSE /\ ch_pc' = [ch_pc EXCEPT ![t] = "send_write"]
            /\ ch_arg' = [ch_arg EXCEPT ![t] = v]
            /\ ch_ret' = [ch_ret EXCEPT ![t] = "none"]
            /\ ch_log' = [ch_log EXCEPT !.send_calls = @ + 1, !.sent = v]
    /\ UNCHANGED <<ch_kind, ch_message, ch_slot, ch_ready, ch_sender, ch_val>>
    /\ UNCHANGED <<ch_receiver, ch_dropped>>
    /\ UNCHANGED chOthers

\* UnsafeOneshotChannel::send: in_use.swap(true, Relaxed); panic if it was set.
ChSendCheck(t, v) ==
    /\ ch_kind = "unsafe"
    /\ ChCanCall(t)
    /\ ch_ops' = [ch_ops EXCEPT ![t] = @ + 1]
    /\ ch_in_use' = TRUE
    /\ IF ch_in_use
       THEN /\ ch_ret' = [ch_ret EXCEPT ![t] = "panic"]
            /\ ch_log' = [ch_log EXCEPT !.send_calls = @ + 1, !.send_panics = @ + 1]
            /\ UNCHANGED <<ch_pc, ch_arg>>
       ELSE /\ ch_pc' = [ch_pc EXCEPT ![t] = "send_write"]
            /\ ch_arg' = [ch_arg EXCEPT ![t] = v]
            /\ ch_ret' = [ch_ret EXCEPT ![t] = "none"]
            /\ ch_log' = [ch_log EXCEPT !.send_calls = @ + 1, !.sent = v]
    /\ UNCHANGED <<ch_kind, ch_message, ch_slot, ch_ready, ch_sender, ch_val>>
    /\ UNCHANGED <<ch_receiver, ch_dropped>>
    /\ UNCHANGED chOthers

\* Sender::send(self, message): the call moves the Sender in, so there is no
\* second call.
ChSenderSend(t, v) ==
    /\ ch_kind = "safe"
    /\ ChCanCall(t)
    /\ ch_sender = "live"
    /\ ch_sender' = "consumed"
    /\ ch_ops' = [ch_ops EXCEPT ![t] = @ + 1]
    /\ ch_pc' = [ch_pc EXCEPT ![t] = "send_write"]
    /\ ch_arg' = [ch_arg EXCEPT ![t] = v]
    /\ ch_ret' = [ch_ret EXCEPT ![t] = "none"]
    /\ ch_log' = [ch_log EXCEPT !.send_calls = @ + 1, !.sent = v]
    /\ UNCHANGED <<ch_kind, ch_message, ch_slot, ch_in_use, ch_ready, ch_val>>
    /\ UNCHANGED <<ch_receiver, ch_dropped>>
    /\ UNCHANGED chOthers

\* send: (*message.get()).write(message).
ChSendWrite(t) ==
    /\ ch_pc[t] = "send_write"
    /\ ch_message' = ch_arg[t]
    /\ ch_slot' = "init"
    /\ ch_pc' = [ch_pc EXCEPT ![t] = "send_store"]
    /\ ch_log' = [ch_log EXCEPT !.writes = @ + 1]
    /\ UNCHANGED <<ch_kind, ch_in_use, ch_ready, ch_sender, ch_arg, ch_ret, ch_val, ch_ops>>
    /\ UNCHANGED <<ch_receiver, ch_dropped>>
    /\ UNCHANGED chOthers

\* send: ready.store(true, Release).  Sender::send then drops self.
ChSendStore(t) ==
    /\ ch_pc[t] = "send_store"
    /\ ch_ready' = TRUE
    /\ ch_pc' = [ch_pc EXCEPT ![t] = IF ch_kind = "safe" THEN "send_drop" ELSE "idle"]
    /\ ch_ret' = [ch_ret EXCEPT ![t] = "sent"]
    /\ ch_log' = [ch_log EXCEPT !.send_done = TRUE]
    /\ UNCHANGED <<ch_kind, ch_message, ch_slot, ch_in_use, ch_sender, ch_arg, ch_val, ch_ops>>
    /\ UNCHANGED <<ch_receiver, ch_dropped>>
    /\ UNCHANGED chOthers

\* A receive() that goes on to read the slot whatever the flag was.
ChRecvSwapNoCheck(t) ==
    /\ ChCanReceive(t)
    /\ ch_ops' = [ch_ops EXCEPT ![t] = @ + 1]
    /\ ch_ready' = FALSE
    /\ ch_pc' = [ch_pc EXCEPT ![t] = "recv_read"]
    /\ ch_ret' = [ch_ret EXCEPT ![t] = "none"]
    /\ ch_log' = [ch_log EXCEPT !.recv_calls = @ + 1, !.recv_ok = @ + 1]
    /\ UNCHANGED <<ch_kind, ch_message, ch_slot, ch_in_use, ch_sender, ch_arg, ch_val>>
    /\ UNCHANGED <<ch_receiver, ch_dropped>>
    /\ UNCHANGED chOthers

\* A receive() that loads the flag and leaves it set.
ChRecvSwapLoads(t) ==
    /\ ChCanReceive(t)
    /\ ch_ops' = [ch_ops EXCEPT ![t] = @ + 1]
    /\ UNCHANGED ch_ready
    /\ IF ch_ready
       THEN /\ ch_pc' = [ch_pc EXCEPT ![t] = "recv_read"]
            /\ ch_ret' = [ch_ret EXCEPT ![t] = "none"]
            /\ ch_log' = [ch_log EXCEPT !.recv_calls = @ + 1, !.recv_ok = @ + 1]
       ELSE /\ ch_ret' = [ch_ret EXCEPT ![t] = "panic"]
            /\ ch_log' = [ch_log EXCEPT !.recv_calls = @ + 1, !.recv_panics = @ + 1]
            /\ UNCHANGED ch_pc
    /\ UNCHANGED <<ch_kind, ch_message, ch_slot, ch_in_use, ch_sender, ch_arg, ch_val>>
    /\ UNCHANGED <<ch_receiver, ch_dropped>>
    /\ UNCHANGED chOthers

\* receive (both variants): ready.swap(false, Acquire); panic if it was false.
ChRecvSwap(t) ==
    /\ ChCanReceive(t)
    /\ ch_ops' = [ch_ops EXCEPT ![t] = @ + 1]
    /\ ch_ready' = FALSE
    /\ IF ch_ready
       THEN /\ ch_pc' = [ch_pc EXCEPT ![t] = "recv_read"]
            /\ ch_ret' = [ch_ret EXCEPT ![t] = "none"]
            /\ ch_log' = [ch_log EXCEPT !.recv_calls = @ + 1, !.recv_ok = @ + 1]
       ELSE /\ ch_ret' = [ch_ret EXCEPT ![t] = "panic"]
            /\ ch_log' = [ch_log EXCEPT !.recv_calls = @ + 1, !.recv_panics = @ + 1]
            /\ UNCHANGED ch_pc
    /\ UNCHANGED <<ch_kind, ch_message, ch_slot, ch_in_use, ch_sender, ch_arg, ch_val>>
    /\ UNCHANGED <<ch_receiver, ch_dropped>>
    /\ UNCHANGED chOthers

\* A receive that sets the flag again after reading the slot.
ChRecvReadRestoresFlag(t) ==
    /\ ch_pc[t] = "recv_read"
    /\ \E v \in (IF ch_slot = "init" THEN {ch_message} ELSE 0 .. ChMaxMsg) :
           ch_val' = [ch_val EXCEPT ![t] = v]
    /\ ch_slot' = IF ch_slot = "init" THEN "moved" ELSE ch_slot
    /\ ch_ready' = TRUE
    /\ ch_pc' = [ch_pc EXCEPT ![t] = "idle"]
    /\ ch_ret' = [ch_ret EXCEPT ![t] = "value"]
    /\ ch_log' = [ch_log EXCEPT !.reads = @ + 1]
    /\ UNCHANGED <<ch_kind, ch_message, ch_in_use, ch_sender, ch_arg, ch_ops>>
    /\ UNCHANGED <<ch_receiver, ch_dropped>>
    /\ UNCHANGED chOthers

\* What assume_init_read() returns: the message if the slot holds one; reading an
\* uninitialised or moved-out slot is undefined, and any value can come back.
ChSlotRead == IF ch_slot = "init" THEN {ch_message} ELSE 0 .. ChMaxMsg

\* receive (both variants): (*message.get()).assume_init_read().
ChRecvRead(t) ==
    /\ ch_pc[t] = "recv_read"
    /\ \E v \in ChSlotRead : ch_val' = [ch_val EXCEPT ![t] = v]
    /\ ch_slot' = IF ch_slot = "init" THEN "moved" ELSE ch_slot
    /\ ch_pc' = [ch_pc EXCEPT ![t] = "idle"]
    /\ ch_ret' = [ch_ret EXCEPT ![t] = "value"]
    /\ ch_log' = [ch_log EXCEPT !.reads = @ + 1]
    /\ UNCHANGED <<ch_kind, ch_message, ch_in_use, ch_ready, ch_sender, ch_arg, ch_ops>>
    /\ UNCHANGED <<ch_receiver, ch_dropped>>
    /\ UNCHANGED chOthers

\* Receiver::is_ready / UnsafeOneshotChannel::is_ready: ready.load(Relaxed).
ChIsReady(t) ==
    /\ ChCanReceive(t)
    /\ ch_ops' = [ch_ops EXCEPT ![t] = @ + 1]
    /\ ch_ret' = [ch_ret EXCEPT ![t] = IF ch_ready THEN "ready" ELSE "not_ready"]
    /\ ch_log' = [ch_log EXCEPT !.seen_ready = @ \/ ch_ready]
    /\ UNCHANGED <<ch_kind, ch_message, ch_slot, ch_in_use, ch_ready, ch_sender,
                   ch_receiver, ch_dropped, ch_pc, ch_arg, ch_val>>
    /\ UNCHANGED chOthers

\* A destructor that drops the slot's content whatever the flag says.
ChHandleGoneDropsAlways(last) ==
    IF last
    THEN /\ ch_dropped' = TRUE
         /\ ch_slot' = "destroyed"
         /\ ch_log' = [ch_log EXCEPT !.destroyed = @ + 1]
    ELSE UNCHANGED <<ch_dropped, ch_slot, ch_log>>

\* A handle of the channel goes away.  If it was the last one (the Arc's count
\* reaches 0, or the UnsafeOneshotChannel itself is dropped) the channel's
\* destructor runs: Drop for Channel / Drop for UnsafeOneshotChannel call
\* assume_init_drop() if ready is set.
ChHandleGone(last) ==
    IF last
    THEN /\ ch_dropped' = TRUE
         /\ ch_slot' = IF ch_ready THEN "destroyed" ELSE ch_slot
         /\ ch_log' = [ch_log EXCEPT !.destroyed = @ + IF ch_ready THEN 1 ELSE 0]
    ELSE UNCHANGED <<ch_dropped, ch_slot, ch_log>>

\* Sender::send returns: self, moved into the call, is dropped.
ChSendReturn(t) ==
    /\ ch_pc[t] = "send_drop"
    /\ ch_pc' = [ch_pc EXCEPT ![t] = "idle"]
    /\ ch_sender' = "dropped"
    /\ ChHandleGone(ch_receiver = "dropped")
    /\ UNCHANGED <<ch_kind, ch_message, ch_in_use, ch_ready, ch_receiver,
                   ch_arg, ch_ret, ch_val, ch_ops>>
    /\ UNCHANGED chOthers

\* The Sender is dropped without send() having been called.
ChDropSender ==
    /\ ch_sender = "live"
    /\ ch_sender' = "dropped"
    /\ ChHandleGone(ch_receiver = "dropped")
    /\ UNCHANGED <<ch_kind, ch_message, ch_in_use, ch_ready, ch_receiver,
                   ch_pc, ch_arg, ch_ret, ch_val, ch_ops>>
    /\ UNCHANGED chOthers

\* The Receiver is dropped; no receive(&self) is running on it.
ChDropReceiver ==
    /\ ch_receiver = "live"
    /\ \A t \in ChThreads : ch_pc[t] # "recv_read"
    /\ ch_receiver' = "dropped"
    /\ ChHandleGone(ch_sender = "dropped")
    /\ UNCHANGED <<ch_kind, ch_message, ch_in_use, ch_ready, ch_sender,
                   ch_pc, ch_arg, ch_ret, ch_val, ch_ops>>
    /\ UNCHANGED chOthers

\* The UnsafeOneshotChannel is dropped; drop(&mut self) needs every call on it
\* to have returned.
ChDropUnsafe ==
    /\ ch_kind = "unsafe"
    /\ ~ch_dropped
    /\ \A t \in ChThreads : ch_pc[t] = "idle"
    /\ ChHandleGone(TRUE)
    /\ UNCHANGED <<ch_kind, ch_message, ch_in_use, ch_ready, ch_sender, ch_receiver,
                   ch_pc, ch_arg, ch_ret, ch_val, ch_ops>>
    /\ UNCHANGED chOthers

(***************************************************************************)
(* Blocking queue channel: channels/src/simple.rs                          *)
(***************************************************************************)
QueueSenderCount == 2
QueueReceiverCount == 2
QueueCalls == 2
QueueMaxMsg == 2
QueueSpurious == 1

QueueSenders == 1..QueueSenderCount
QueueReceivers == (QueueSenderCount + 1)..(QueueSenderCount + QueueReceiverCount)
QueueThreads == QueueSenders \cup QueueReceivers
QueueMsgs == 1..QueueMaxMsg

\* SimpleChannel::new: an empty queue, nobody waiting.
InitQueue ==
    /\ q_queue = <<>>
    /\ q_lock = 0
    /\ q_ready = {}
    /\ q_pc = [t \in QueueThreads |-> "idle"]
    /\ q_sends = QueueCalls
    /\ q_recvs = QueueCalls
    /\ q_spurious = QueueSpurious
    /\ q_pushed = <<>>
    /\ q_recvd = <<>>

\* send: self.queue.lock() returns once the mutex is free.
QSendLock(t) ==
    /\ t \in QueueSenders
    /\ q_pc[t] = "idle"
    /\ q_sends > 0
    /\ q_lock = 0
    /\ q_lock' = t
    /\ q_sends' = q_sends - 1
    /\ q_pc' = [q_pc EXCEPT ![t] = "send_push"]
    /\ UNCHANGED <<q_queue, q_ready, q_recvs, q_spurious, q_pushed, q_recvd>>
    /\ UNCHANGED queueOthers

\* A send that puts its message at the front of the queue.
QSendPushFront(t, message) ==
    /\ q_pc[t] = "send_push"
    /\ q_queue' = <<message>> \o q_queue
    /\ q_pushed' = Append(q_pushed, message)
    /\ q_lock' = 0
    /\ q_pc' = [q_pc EXCEPT ![t] = "send_notify"]
    /\ UNCHANGED <<q_ready, q_sends, q_recvs, q_spurious, q_recvd>>
    /\ UNCHANGED queueOthers

\* send: push_back(message), message being the caller's argument; the temporary guard is dropped at the end of the
\* statement, which unlocks the mutex.
QSendPush(t, message) ==
    /\ q_pc[t] = "send_push"
    /\ q_queue' = Append(q_queue, message)
    /\ q_pushed' = Append(q_pushed, message)
    /\ q_lock' = 0
    /\ q_pc' = [q_pc EXCEPT ![t] = "send_notify"]
    /\ UNCHANGED <<q_ready, q_sends, q_recvs, q_spurious, q_recvd>>
    /\ UNCHANGED queueOthers

\* A send that returns without notifying.
QSendNotifySkipped(t) ==
    /\ q_pc[t] = "send_notify"
    /\ q_pc' = [q_pc EXCEPT ![t] = "idle"]
    /\ UNCHANGED <<q_queue, q_lock, q_ready, q_sends, q_recvs,
                   q_spurious, q_pushed, q_recvd>>
    /\ UNCHANGED queueOthers

\* send: self.ready.notify_one() wakes one of the suspended threads, if any.
QSendNotify(t) ==
    /\ q_pc[t] = "send_notify"
    /\ IF q_ready = {}
       THEN /\ q_pc' = [q_pc EXCEPT ![t] = "idle"]
            /\ UNCHANGED q_ready
       ELSE \E w \in q_ready :
            /\ q_ready' = q_ready \ {w}
            /\ q_pc' = [q_pc EXCEPT ![t] = "idle", ![w] = "recv_relock"]
    /\ UNCHANGED <<q_queue, q_lock, q_sends, q_recvs,
                   q_spurious, q_pushed, q_recvd>>
    /\ UNCHANGED queueOthers

\* receive is called.
QRecvCall(t) ==
    /\ t \in QueueReceivers
    /\ q_pc[t] = "idle"
    /\ q_recvs > 0
    /\ q_recvs' = q_recvs - 1
    /\ q_pc' = [q_pc EXCEPT ![t] = "recv_lock"]
    /\ UNCHANGED <<q_queue, q_lock, q_ready, q_sends,
                   q_spurious, q_pushed, q_recvd>>
    /\ UNCHANGED queueOthers

\* receive: self.queue.lock(), or the re-lock at the end of Condvar::wait,
\* returns once the mutex is free.
QRecvLock(t) ==
    /\ q_pc[t] \in {"recv_lock", "recv_relock"}
    /\ q_lock = 0
    /\ q_lock' = t
    /\ q_pc' = [q_pc EXCEPT ![t] = "recv_loop"]
    /\ UNCHANGED <<q_queue, q_ready, q_sends, q_recvs,
                   q_spurious, q_pushed, q_recvd>>
    /\ UNCHANGED queueOthers

\* receive: pop_front() gave Some(message); return drops the guard.
QRecvPop(t) ==
    /\ q_pc[t] = "recv_loop"
    /\ q_queue # <<>>
    /\ q_recvd' = Append(q_recvd, Head(q_queue))
    /\ q_queue' = Tail(q_queue)
    /\ q_lock' = 0
    /\ q_pc' = [q_pc EXCEPT ![t] = "idle"]
    /\ UNCHANGED <<q_ready, q_sends, q_recvs, q_spurious, q_pushed>>
    /\ UNCHANGED queueOthers

\* receive: pop_front() gave None; self.ready.wait(q) unlocks the mutex and
\* suspends the thread in one atomic step.
QRecvWait(t) ==
    /\ q_pc[t] = "recv_loop"
    /\ q_queue = <<>>
    /\ q_lock' = 0
    /\ q_ready' = q_ready \cup {t}
    /\ q_pc' = [q_pc EXCEPT ![t] = "recv_wait"]
    /\ UNCHANGED <<q_queue, q_sends, q_recvs, q_spurious,
                   q_pushed, q_recvd>>
    /\ UNCHANGED queueOthers

\* Condvar::wait may wake without a notification.
QRecvSpurious(t) ==
    /\ q_pc[t] = "recv_wait"
    /\ q_spurious > 0
    /\ q_spurious' = q_spurious - 1
    /\ q_ready' = q_ready \ {t}
    /\ q_pc' = [q_pc EXCEPT ![t] = "recv_relock"]
    /\ UNCHANGED <<q_queue, q_lock, q_sends, q_recvs,
                   q_pushed, q_recvd>>
    /\ UNCHANGED queueOthers

\* The steps a scheduled thread takes on its own: everything but the decision
\* to call receive and the spurious wakeups.
QueueStep(t) ==
    \/ QSendLock(t)
    \/ \E v \in QueueMsgs : QSendPush(t, v)
    \/ QSendNotify(t)
    \/ QRecvLock(t)
    \/ QRecvPop(t)
    \/ QRecvWait(t)

(***************************************************************************)
(* Specifications                                                          *)
(***************************************************************************)

\* Every primitive freshly constructed; the channel of either kind.
Init == InitArc /\ InitMutex /\ InitSpin /\ InitRw /\ InitCh /\ InitQueue
\* The same with the channel's kind fixed, for the other primitives' runs.
InitOne == Init /\ ch_kind = "unsafe"

NextArc ==
    \/ \E h \in ArcHandles : ArcClone(h)
    \/ \E h \in ArcHandles : ArcDrop(h)
    \/ \E h \in ArcHandles : ArcFree(h)
    \/ \E h \in ArcHandles : ArcGetMut(h)
    \/ \E h \in ArcHandles : ArcReleaseMut(h)

NextMutex ==
    \/ \E t \in MutexThreads : MutexLock(t)
    \/ \E t \in MutexThreads : MutexSpin(t)
    \/ \E t \in MutexThreads : MutexSpinCas(t)
    \/ \E t \in MutexThreads : MutexSwap(t)
    \/ \E t \in MutexThreads : MutexWait(t)
    \/ \E t \in MutexThreads : MutexSpuriousWake(t)
    \/ \E t \in MutexThreads : MutexRead(t)
    \/ \E t \in MutexThreads : MutexWrite(t)
    \/ \E t \in MutexThreads : MutexUnlock(t)
    \/ \E t \in MutexThreads : MutexWake(t)

NextSpin ==
    \/ \E t \in SpinThreads : SpinCall(t)
    \/ \E t \in SpinThreads : SpinSwap(t)
    \/ \E t \in SpinThreads : SpinRead(t)
    \/ \E t \in SpinThreads : SpinWrite(t)
    \/ \E t \in SpinThreads : SpinDrop(t)

NextRw ==
    \/ \E t \in RwThreads, op \in {"reading", "writing"} : RwCall(t, op)
    \/ \E t \in RwThreads : RwRead(t)
    \/ \E t \in RwThreads : RwWrite(t)
    \/ \E t \in RwThreads : RwResume(t)
    \/ \E t \in RwThreads : RwDropRead(t)
    \/ \E t \in RwThreads : RwDropWrite(t)

NextQueue ==
    \/ \E t \in QueueThreads : QSendLock(t)
    \/ \E t \in QueueThreads, v \in QueueMsgs : QSendPush(t, v)
    \/ \E t \in QueueThreads : QSendNotify(t)
    \/ \E t \in QueueThreads : QRecvCall(t)
    \/ \E t \in QueueThreads : QRecvLock(t)
    \/ \E t \in QueueThreads : QRecvPop(t)
    \/ \E t \in QueueThreads : QRecvWait(t)
    \/ \E t \in QueueThreads : QRecvSpurious(t)

NextCh ==
    \/ \E t \in ChThreads, v \in ChMsgs : ChSendCheck(t, v)
    \/ \E t \in ChThreads, v \in ChMsgs : ChSenderSend(t, v)
    \/ \E t \in ChThreads : ChSendWrite(t)
    \/ \E t \in ChThreads : ChSendStore(t)
    \/ \E t \in ChThreads : ChRecvSwap(t)
    \/ \E t \in ChThreads : ChRecvRead(t)
    \/ \E t \in ChThreads : ChIsReady(t)
    \/ \E t \in ChThreads : ChSendReturn(t)
    \/ ChDropSender
    \/ ChDropReceiver
    \/ ChDropUnsafe

SpecArc == InitOne /\ [][NextArc]_vars
SpecMutex == InitOne /\ [][NextMutex]_vars
SpecSpin == InitOne /\ [][NextSpin]_vars
SpecRw == InitOne /\ [][NextRw]_vars
SpecCh == Init /\ [][NextCh]_vars

\* The scheduler runs every thread that can take a step; a spurious return
\* from wait is never owed.
MutexFairness == \A t \in MutexThreads : WF_vars(MutexStep(t))
SpecMutexFair == SpecMutex /\ MutexFairness

SpecQueue == InitOne /\ [][NextQueue]_vars
\* The scheduler keeps running some thread that can take a step, and the
\* senders make all their calls; spurious wakeups and calls of receive are
\* not forced.
QueueFairness == WF_vars(\E t \in QueueThreads : QueueStep(t))
SpecQueueFair == SpecQueue /\ QueueFairness
(***************************************************************************)
(* Properties                                                              *)
(***************************************************************************)

\* C1: a handle made by new(), cloned any number of times and every handle
\* dropped: the block is destroyed exactly once, by the last drop only -- never
\* twice, never while another handle is still live, and always once every
\* handle is gone.
ArcDestroyedOnceByLastDrop ==
    /\ arc_freed <= 1
    /\ (arc_freed > 0 \/ \E h \in ArcHandles : arc_handle[h] = "freeing")
           => \A h \in ArcHandles : arc_handle[h] # "live"
    /\ (\A h \in ArcHandles : arc_handle[h] \in {"none", "dropped"}) => arc_freed = 1

\* C2: get_mut hands out a &mut T only to the sole outstanding handle: a handle
\* holding the mutable reference is the only handle not yet dropped.
ArcGetMutOnlyWhenSole ==
    \A h \in arc_mut : ArcLive = {h}

\* C3: at most one MutexGuard exists at any time, and when every thread has
\* finished, the counter incremented once per critical section equals the
\* number of critical sections run (thread_count x iterations).
MutexMutualExclusion ==
    /\ Cardinality(MutexHolders) <= 1
    /\ MutexAllDone => mutex_value = MutexCalls

\* C3 witness: one thread holds the guard inside its critical section while a
\* second is parked in wait and a third is in the contended path.
MutexContended ==
    \E t, u, w \in MutexThreads :
        /\ mutex_pc[t] = "cs_write"
        /\ mutex_pc[u] = "parked"
        /\ mutex_pc[w] \in {"spin", "cas", "swap", "wait"}

\* The threads inside lock() that do not hold the guard yet.
MutexAcquiring(t) == mutex_pc[t] \in {"spin", "cas", "swap", "wait", "parked"}

\* No lost wakeup: when the mutex is unlocked and a thread is parked in wait,
\* a wake_one is pending, or a thread is about to swap the state to 2 (it takes
\* the lock in state 2, so its unlock will call wake_one).
MutexNoLostWakeup ==
    (mutex_state = 0 /\ MutexParked # {})
        => \E t \in MutexThreads : mutex_pc[t] \in {"wake", "swap"}

\* C4: under fair scheduling, with every guard dropped and finitely many lock()
\* calls per thread, every lock() call eventually returns a guard, and no
\* wakeup is ever lost.
MutexProgress ==
    /\ []MutexNoLostWakeup
    /\ \A t \in MutexThreads : MutexAcquiring(t) ~> (mutex_pc[t] \in MutexGuardPcs)

\* C4 witness: the mutex is unlocked, a thread is parked in wait, and the
\* wake_one that will free it has not run yet.
MutexParkedAtUnlock ==
    /\ mutex_state = 0
    /\ MutexParked # {}
    /\ \E t \in MutexThreads : mutex_pc[t] = "wake"
    /\ \A t \in MutexThreads : mutex_pc[t] # "swap"

\* C5: at most one Guard of the spin lock exists at any time, and locked is
\* true exactly while a Guard exists.
SpinMutualExclusion ==
    /\ Cardinality(SpinHolders) <= 1
    /\ spin_locked <=> SpinHolders # {}

\* C5 witness: one thread holds the Guard while the other two spin in lock().
SpinContended ==
    \E t \in SpinThreads :
        /\ spin_pc[t] \in SpinGuardPcs
        /\ \A u \in SpinThreads \ {t} : spin_pc[u] = "lock"

RwStateMatchesGuards ==
    /\ Cardinality(RwWriters) <= 1
    /\ RwWriters # {} => RwReaders = {}
    /\ rw_state = IF RwWriters # {} THEN RwWriterSentinel ELSE Cardinality(RwReaders)

\* C8: a receive() returns exactly the message that was sent or panics: the
\* slot is read only after the write of the message completed, so what is read
\* is the message, and no receive() succeeds before a send() has completed.
ChDelivery ==
    /\ \A t \in ChThreads :
        /\ ch_pc[t] = "recv_read"
               => (ch_slot = "init" /\ ch_message = ch_log.sent /\ ch_log.send_done)
        /\ ch_ret[t] = "value" => (ch_val[t] = ch_log.sent /\ ch_val[t] \in ChMsgs)
    /\ ~ch_log.send_done => ch_log.recv_ok = 0

\* C8 witness: a receive() that ran before the send completed panicked, and a
\* later one returned the message.
ChDelivered ==
    \E t, u \in ChThreads :
        /\ ch_ret[t] = "value" /\ ch_val[t] = ch_log.sent
        /\ ch_ret[u] = "sent"
        /\ ch_log.recv_panics > 0

\* C9: after the one send, exactly one receive() reads the message and every
\* other one panics, because the swap that finds ready true leaves it false.
ChReadOnce ==
    /\ ch_log.recv_ok <= 1
    /\ ch_log.reads <= ch_log.recv_ok
    /\ ch_ready => ch_log.recv_ok = 0
    /\ (ch_log.send_done /\ ~ch_ready) => ch_log.recv_ok = 1
    /\ ch_log.recv_calls = ch_log.recv_ok + ch_log.recv_panics

\* C9 witness: the message was read out once and two further receive() calls
\* panicked.
ChSecondReceivePanics ==
    /\ ch_log.send_done
    /\ ch_log.reads = 1
    /\ ch_log.recv_panics >= 2

\* A send() call panics in this step.
ChSendPanics == ch_log'.send_panics > ch_log.send_panics

\* C10: of any number of send() calls on an UnsafeOneshotChannel exactly one
\* writes the slot; every other one panics and leaves the slot and the ready
\* flag as they were.
ChSingleSend ==
    /\ [](ch_kind = "unsafe" =>
            /\ ch_log.writes <= 1
            /\ ch_log.send_calls > 0 => ch_log.send_calls - ch_log.send_panics = 1
            /\ ch_log.send_done => ch_log.writes = 1)
    /\ [][ChSendPanics =>
            /\ ch_in_use
            /\ UNCHANGED <<ch_message, ch_slot, ch_ready, ch_in_use>>]_vars

\* C10 witness: on the unsafe channel the message was sent and received, and a
\* later send() panicked.
ChSendAfterReceivePanics ==
    /\ ch_kind = "unsafe"
    /\ ch_log.reads = 1
    /\ ch_log.send_panics > 0
    /\ \E t \in ChThreads : ch_ret[t] = "panic" /\ ch_ops[t] = ChMaxOps

\* C11: in the safe variant a message that was sent is destroyed or handed out
\* exactly once in total: a received message is not destroyed again by the
\* destructor, an unreceived one is destroyed exactly once when both handles
\* are gone, and when nothing was sent the destructor destroys nothing.
ChNoLeakNoDoubleDrop ==
    ch_kind = "safe" =>
        /\ ch_log.destroyed + ch_log.recv_ok <= 1
        /\ ch_log.destroyed > 0 => (ch_dropped /\ ch_log.writes = 1)
        /\ ch_dropped =>
              /\ ch_log.reads = ch_log.recv_ok
              /\ ch_log.destroyed + ch_log.reads = ch_log.writes
              /\ ch_log.writes = (IF ch_log.send_done THEN 1 ELSE 0)

\* C11 witness: both handles are gone and the destructor destroyed the message
\* that was sent and never received, after a receive() that came too early.
ChUnreceivedDestroyed ==
    /\ ch_kind = "safe"
    /\ ch_dropped
    /\ ch_log.destroyed = 1
    /\ ch_log.recv_panics > 0

\* a is a prefix of b.
IsPrefix(a, b) == Len(a) <= Len(b) /\ \A i \in 1..Len(a) : a[i] = b[i]

\* C12: the values returned by receive(), in the order of their pops, are
\* always a prefix of the values sent, in the order of their pushes; what was
\* pushed and not yet popped is in the queue, in push order.
QueueFifo ==
    /\ IsPrefix(q_recvd, q_pushed)
    /\ q_pushed = q_recvd \o q_queue

\* C12 witness: two different messages were sent and both were received, in
\* the order they were pushed.
QueueTwoDelivered ==
    /\ Len(q_recvd) = 2
    /\ q_recvd[1] # q_recvd[2]
    /\ q_recvd = q_pushed

\* The receivers inside a receive() call.
QueueReceiving == {t \in QueueReceivers : q_pc[t] # "idle"}

\* No wakeup is lost: when the queue is non-empty and every receiver inside
\* receive() is suspended on the condition, a sender is about to notify.
QueueNoLostWakeup ==
    (q_queue # <<>> /\ QueueReceiving # {} /\ QueueReceiving \subseteq q_ready)
        => \E s \in QueueSenders : q_pc[s] = "send_notify"

\* C13: a receive() returns only a message that a send() pushed before, never
\* from an empty queue and never straight out of the wait; no wakeup is lost;
\* and with as many sends as receive() calls every receive() returns: from
\* some point on no receiver is inside receive() any more.
QueueReceiveWoken ==
    /\ []QueueNoLostWakeup
    /\ [][\A t \in QueueReceivers :
            (q_pc[t] # "idle" /\ q_pc'[t] = "idle") =>
                /\ q_pc[t] = "recv_loop"
                /\ q_queue # <<>>
                /\ q_recvd' = Append(q_recvd, Head(q_queue))
                /\ Len(q_recvd') <= Len(q_pushed)]_vars
    /\ <>[](QueueReceiving = {})

\* C13 witness: a receiver found the queue empty and is suspended, a message
\* has been pushed since, and its sender has not notified yet.
QueueWakeupPending ==
    \E r \in QueueReceivers, s \in QueueSenders :
        /\ q_pc[r] = "recv_wait"
        /\ q_queue # <<>>
        /\ q_pc[s] = "send_notify"
        /\ q_spurious = 0

\* C14: over any sequence of clone and drop operations the reference count
\* never wraps around modulo 2^RcWidth: while the block is allocated, each
\* step leaves the count alone or moves it by exactly one, never from the
\* maximum to 0 or from 0 to the maximum.
ArcCountNeverWraps ==
    [][arc_freed = 0 =>
          \/ arc_ref_count' = arc_ref_count
          \/ arc_ref_count' = arc_ref_count + 1
          \/ arc_ref_count' = arc_ref_count - 1]_vars

\* C19: whenever exactly one handle to the block exists, get_mut on it returns
\* a mutable reference: a get_mut that has just returned None was called while
\* some other handle existed.
ArcGetMutSoleOwner ==
    arc_got = "none" => Cardinality(ArcLive) # 1

MutexStateInvariant ==
    /\ [](mutex_state \in {0, 1, 2} /\ (mutex_state = 0 <=> MutexHolders = {}))
    /\ [][(mutex_state # 0 /\ mutex_state' = 0) =>
             \E t \in MutexThreads :
                 /\ mutex_pc[t] = "unlock"
                 /\ mutex_pc'[t] \in {"wake", "idle"}
                 /\ MutexHolders = {t}]_vars
    /\ [][(mutex_state = 0 /\ mutex_state' # 0) =>
             \E t \in MutexThreads :
                 /\ MutexHolders' = {t}
                 /\ mutex_pc'[t] = "cs"
                 /\ \/ mutex_state' = 1 /\ mutex_pc[t] \in {"idle", "cas"}
                    \/ mutex_state' = 2 /\ mutex_pc[t] = "swap"]_vars

\* C18 witness: the word is 2 with one guard alive, taken by a swap to 2 that
\* found 0, and nobody is parked.
MutexHeldContendedAlone ==
    \E t \in MutexThreads :
        /\ mutex_state = 2
        /\ MutexHolders = {t}
        /\ t \in mutex_marked
        /\ MutexParked = {}

\* C16: dropping a WriteGuard resets the state word to 0 and, whenever at least
\* one reader or writer is parked waiting for the lock, wakes one of them.
RwWriteReleaseWakes ==
    [][\A t \in RwThreads :
          (rw_pc[t] = "write" /\ rw_pc'[t] = "idle") =>
              /\ rw_state' = 0
              /\ RwParked # {} => \E w \in RwParked : w \notin RwParked']_vars

\* C17: the next holder of the SpinLock never observes a stale protected
\* value: what a guard holder has read in its critical section is the value
\* the last write left.
SpinNoStaleRead ==
    \A t \in SpinThreads : spin_pc[t] = "cs_write" => spin_local[t] = spin_data

\* C20: in both variants, while the channel exists, a set ready flag means the
\* slot holds the fully written message, not yet read out; the flag rises at
\* most once, by the one send, and falls at most once, by the one successful
\* receive; and once is_ready() has returned true the flag stays set until a
\* receive() takes the message, so the next receive() succeeds.
ChReadyFlag ==
    /\ []((~ch_dropped /\ ch_ready) =>
             /\ ch_slot = "init"
             /\ ch_message = ch_log.sent
             /\ ch_log.reads = 0)
    /\ []((~ch_dropped /\ ch_log.seen_ready /\ ch_log.recv_ok = 0) => ch_ready)
    /\ [][(~ch_ready /\ ch_ready') => (~ch_log.send_done /\ ch_log.send_done')]_vars
    /\ [][(ch_ready /\ ~ch_ready') => (ch_log.recv_ok = 0 /\ ch_log.recv_ok' = 1)]_vars
    /\ [][(ch_log.seen_ready /\ ch_log.recv_ok = 0
             /\ ch_log.recv_calls' = ch_log.recv_calls + 1) =>
                ch_log.recv_ok' = 1]_vars

\* C20 witness: is_ready() returned true and the one receive() made after it
\* returned the message that was sent.
ChReadyThenReceived ==
    \E t \in ChThreads :
        /\ ch_log.seen_ready
        /\ ch_log.recv_calls = 1
        /\ ch_ret[t] = "value"
        /\ ch_val[t] = ch_log.sent

====
